---- MODULE Spec2Model ----
(***************************************************************************)
(* A model of unplugin-typia's transform cache (core/cache.ts) and of the  *)
(* Bun adapter's setup and load dispatch (bun.ts).                         *)
(*                                                                         *)
(* Strings are sequences of tokens (a token is a run of characters that    *)
(* the code never splits); concatenation is \o and String.endsWith is      *)
(* EndsWith.  A nullable value is a sequence of length at most one: Null   *)
(* is <<>> and Some(x) is <<x>>.                                           *)
(***************************************************************************)
EXTENDS Integers, Sequences, FiniteSets, TLC

VARIABLES
    fs,            \* the files under the cache bases: path -> content
    dir,           \* each cache base directory: "absent", "rw" or "ro"
    installed,     \* the version in typia's package.json, as an index
    typiaVersion,  \* cache.ts:16, the memoized version (Null until resolved)
    cacheDir,      \* cache.ts:15, the "prepared" flag (Null or Some(base))
    isBun,         \* the host runtime of this process
    session,       \* the resolved cache options of this build session
    setAt,         \* history: path -> the installed version when setCache wrote it
    setBy,         \* history: path -> the (identity, source) setCache wrote it for
    prev,          \* the setCache completed right before last, if any
    last,          \* the call that has just completed
    tasks,         \* the calls in flight, suspended at an await
    plugin,        \* the Bun adapter's build session
    keyed,         \* two (identity, source) pairs and their cache keys
    nextjs         \* a call of the Next.js wrapper and of its webpack hook

vars ==
    <<fs, dir, installed, typiaVersion, cacheDir, isBun, session, setAt, setBy,
      prev, last, tasks, plugin, keyed, nextjs>>

\* What the sequential facade leaves alone.
otherVars == <<tasks, plugin, keyed, nextjs>>

----------------------------------------------------------------------------
(* Bounds and universes *)

\* The installed version takes the values 0..MaxVersion.
MaxVersion == 1

Versions == 0..MaxVersion

\* The version string of package.json for each index.
VersionString(v) == <<"5.0.0", "5.1.0", "5.2.0", "6.0.0">>[v + 1]

Null == <<>>

Some(x) == <<x>>

\* File identities: paths as sequences of segments, a segment a token sequence.
IdA == << <<"src">>, <<"a">>, <<"x.ts">> >>

IdB == << <<"src">>, <<"b">>, <<"x.ts">> >>

Ids == {IdA, IdB}

Sources == {"s1"}

\* Transformed outputs handed to setCache.
Datas == {<<"x">>, <<"y">>}

Bases == {"b1"}

Opts == [enable : BOOLEAN, base : Bases]

----------------------------------------------------------------------------
(* Pure functions of cache.ts *)

\* pathe's basename and dirname on a path of at least two segments.
basename(p) == p[Len(p)]

dirname(p) == SubSeq(p, 1, Len(p) - 1)

\* Bun.hash(input).toString() and md5 hex, as injective tables on Sources.
hash(input, bun) ==
    IF bun THEN "wy:" \o input ELSE "md5:" \o input

getKey(id, source, bun) ==
    basename(dirname(id)) \o <<"_">> \o basename(id) \o <<"_">>
        \o <<hash(source, bun)>>

getCachePath(key, option) == <<option.base, key>>

\* Variant: a marker that leaves the version out.
HashComment_NoVersion(version, key) ==
    <<"/* unplugin-typia-">> \o <<"-">> \o key \o <<" */">>

\* The text of the hash comment for a version (Null reads as '').
HashComment(version, key) ==
    <<"/* unplugin-typia-">> \o version \o <<"-">> \o key \o <<" */">>

\* typiaVersion ?? (await readPackageJSON('typia')).version
ResolveVersion(memo, inst) ==
    IF memo # Null THEN memo ELSE Some(VersionString(inst))

EndsWith(s, suffix) ==
    /\ Len(suffix) <= Len(s)
    /\ SubSeq(s, Len(s) - Len(suffix) + 1, Len(s)) = suffix

\* Variant: data.includes(hashComment) in place of data.endsWith(hashComment).
CacheHit_Includes(data, hashComment) ==
    IF \E i \in 0..(Len(data) - Len(hashComment)) :
          SubSeq(data, i + 1, i + Len(hashComment)) = hashComment
    THEN Some(data) ELSE Null

\* data.endsWith(hashComment) ? data : null
CacheHit(data, hashComment) ==
    IF EndsWith(data, hashComment) THEN Some(data) ELSE Null

\* Variant: the data is stored without the hash comment.
CacheContent_NoMarker(data, hashComment) == data

\* const cache = data + hashComment
CacheContent(data, hashComment) == data \o hashComment

----------------------------------------------------------------------------
(* The file system under the cache bases *)

Exists(files, path) == path \in DOMAIN files

\* mkdir(dir, { recursive: true }): creates a missing directory, else no-op.
mkdir(dirs, base) ==
    [dirs EXCEPT ![base] = IF @ = "absent" THEN "rw" ELSE @]

\* access(filename, W_OK) succeeded
isWritable(dirs, base) == dirs[base] = "rw"

\* The error of creating or replacing the file at path, "" when it succeeds:
\* fs.writeFile fails in a missing directory, Bun.write (createPath) makes it;
\* a new file cannot be created in a read-only directory.
WriteError(files, dirs, path, bun) ==
    IF dirs[path[1]] = "absent" THEN (IF bun THEN "" ELSE "ENOENT")
    ELSE IF dirs[path[1]] = "ro" /\ ~Exists(files, path) THEN "EACCES"
    ELSE ""

WriteFile(files, path, content) ==
    [p \in DOMAIN files \cup {path} |-> IF p = path THEN content ELSE files[p]]

\* Variant: rm(path, { force: true }), which accepts a missing path.
RmError_Force(files, dirs, path) ==
    IF Exists(files, path) /\ dirs[path[1]] = "ro" THEN "EACCES" ELSE ""

\* The error of rm(path), "" when it succeeds: rm without force rejects a
\* missing path; unlinking needs a writable directory.
RmError(files, dirs, path) ==
    IF ~Exists(files, path) THEN "ENOENT"
    ELSE IF dirs[path[1]] # "rw" THEN "EACCES"
    ELSE ""

\* Variant: rm leaves the file in place.
RemoveFile_Noop(files, path) == files

RemoveFile(files, path) == [p \in DOMAIN files \ {path} |-> files[p]]

----------------------------------------------------------------------------
(* The record of a completed call *)

NoCall ==
    [op |-> "none", id |-> <<>>, source |-> "", data |-> Null,
     option |-> [enable |-> FALSE, base |-> ""], result |-> Null, err |-> "",
     existed |-> FALSE]

\* existed: the entry was on disk when the call started.
Call(op, id, source, data, option, result, err) ==
    [op |-> op, id |-> id, source |-> source, data |-> data,
     option |-> option, result |-> result, err |-> err,
     existed |-> Exists(fs, getCachePath(getKey(id, source, isBun), option))]

----------------------------------------------------------------------------
(* prepareCacheDir, cache.ts:121-133 *)

\* Variant: the enable flag is not consulted.
CacheEnabled_Always(option) == TRUE

\* if (!option.enable) return
CacheEnabled(option) == option.enable

\* Variant: an unwritable base is accepted without an error.
PrepareThrows_Soft(option) == FALSE

PrepareThrows(option) ==
    /\ cacheDir = Null
    /\ ~isWritable(mkdir(dir, option.base), option.base)

DirAfterPrepare(option) ==
    IF cacheDir # Null THEN dir ELSE mkdir(dir, option.base)

CacheDirAfterPrepare(option) ==
    IF cacheDir # Null THEN cacheDir
    ELSE IF PrepareThrows(option) THEN Null
    ELSE Some(option.base)

----------------------------------------------------------------------------
(* getCache, cache.ts:24-59, run to completion *)

GetCache(id, source, option) ==
    LET key == getKey(id, source, isBun)
        path == getCachePath(key, option)
        version == ResolveVersion(typiaVersion, installed)
        hashComment == HashComment(version, key)
        Done(result, err) == Call("get", id, source, Null, option, result, err)
    IN  /\ prev' = IF last.op = "set" THEN last ELSE NoCall
        /\ UNCHANGED <<fs, installed, isBun, session, setAt, setBy,
                       otherVars>>
        /\ IF ~CacheEnabled(option)
           THEN /\ UNCHANGED <<dir, typiaVersion, cacheDir>>
                /\ last' = Done(Null, "")
           ELSE /\ dir' = DirAfterPrepare(option)
                /\ cacheDir' = CacheDirAfterPrepare(option)
                /\ IF PrepareThrows(option)
                   THEN /\ UNCHANGED typiaVersion
                        /\ last' = Done(Null, "not_writable")
                   ELSE IF ~Exists(fs, path)
                   THEN /\ UNCHANGED typiaVersion
                        /\ last' = Done(Null, "")
                   ELSE /\ typiaVersion' = version
                        /\ last' = Done(CacheHit(fs[path], hashComment), "")

----------------------------------------------------------------------------
(* setCache, cache.ts:68-95, run to completion *)

SetCache(id, source, data, option) ==
    LET key == getKey(id, source, isBun)
        path == getCachePath(key, option)
        version == ResolveVersion(typiaVersion, installed)
        hashComment == HashComment(version, key)
        dirs == DirAfterPrepare(option)
        Done(err) == Call("set", id, source, data, option, Null, err)
    IN  /\ prev' = IF last.op = "set" THEN last ELSE NoCall
        /\ UNCHANGED <<installed, isBun, session, otherVars>>
        /\ IF ~CacheEnabled(option)
           THEN /\ UNCHANGED <<fs, dir, typiaVersion, cacheDir, setAt, setBy>>
                /\ last' = Done("")
           ELSE /\ cacheDir' = CacheDirAfterPrepare(option)
                /\ IF PrepareThrows(option)
                   THEN /\ dir' = dirs
                        /\ UNCHANGED <<fs, typiaVersion, setAt, setBy>>
                        /\ last' = Done("not_writable")
                   ELSE /\ typiaVersion' = version
                        /\ IF data = Null
                           THEN LET err == RmError(fs, dirs, path)
                                IN  /\ dir' = dirs
                                    /\ fs' = IF err = "" THEN RemoveFile(fs, path)
                                                         ELSE fs
                                    /\ setAt' = IF err = ""
                                                THEN RemoveFile(setAt, path)
                                                ELSE setAt
                                    /\ setBy' = IF err = ""
                                                THEN RemoveFile(setBy, path)
                                                ELSE setBy
                                    /\ last' = Done(err)
                           ELSE LET err == WriteError(fs, dirs, path, isBun)
                                    cache == CacheContent(data[1], hashComment)
                                IN  /\ dir' = IF err = ""
                                              THEN mkdir(dirs, option.base)
                                              ELSE dirs
                                    /\ fs' = IF err = ""
                                             THEN WriteFile(fs, path, cache)
                                             ELSE fs
                                    /\ setAt' = IF err = ""
                                                THEN WriteFile(setAt, path, installed)
                                                ELSE setAt
                                    /\ setBy' = IF err = ""
                                                THEN WriteFile(setBy, path,
                                                        [id |-> id,
                                                         source |-> source])
                                                ELSE setBy
                                    /\ last' = Done(err)

----------------------------------------------------------------------------
(* The environment of the process *)

\* Another version of typia is installed (package.json changes on disk).
ChangeVersion ==
    /\ \E v \in Versions \ {installed} : installed' = v
    /\ prev' = NoCall
    /\ last' = NoCall
    /\ UNCHANGED <<fs, dir, typiaVersion, cacheDir, isBun, session, setAt, setBy,
                   otherVars>>

\* A new build session in a new process: the module-level state of
\* cache.ts:15-16 is fresh and the options are resolved again.
Restart ==
    /\ typiaVersion' = Null
    /\ cacheDir' = Null
    /\ session' \in Opts
    /\ prev' = NoCall
    /\ last' = NoCall
    /\ UNCHANGED <<fs, dir, installed, isBun, setAt, setBy, otherVars>>

\* The permissions of an existing cache base directory change.
Chmod ==
    /\ \E b \in Bases :
          /\ dir[b] # "absent"
          /\ dir' = [dir EXCEPT ![b] = IF @ = "rw" THEN "ro" ELSE "rw"]
    /\ prev' = NoCall
    /\ last' = NoCall
    /\ UNCHANGED <<fs, installed, typiaVersion, cacheDir, isBun, session, setAt,
                   setBy,
                   otherVars>>

\* An existing cache base directory is removed with the files in it (the
\* default base lies under the temporary directory, cache.ts:166-184).
Rmdir ==
    /\ \E b \in Bases :
          /\ dir[b] # "absent"
          /\ dir' = [dir EXCEPT ![b] = "absent"]
          /\ fs' = [p \in {q \in DOMAIN fs : q[1] # b} |-> fs[p]]
          /\ setAt' = [p \in {q \in DOMAIN setAt : q[1] # b} |-> setAt[p]]
          /\ setBy' = [p \in {q \in DOMAIN setBy : q[1] # b} |-> setBy[p]]
    /\ prev' = NoCall
    /\ last' = NoCall
    /\ UNCHANGED <<installed, typiaVersion, cacheDir, isBun, session,
                   otherVars>>

----------------------------------------------------------------------------
(* Contents another program may have left at an entry's path *)

Keys(bun) == {getKey(id, source, bun) : id \in Ids, source \in Sources}

Entry(data, v, key) ==
    CacheContent(data, HashComment(Some(VersionString(v)), key))

ForeignContents(key, bun) ==
    {Entry(d, v, key) : d \in Datas, v \in Versions}
    \cup {SubSeq(Entry(<<"x">>, v, key), 1, Len(Entry(<<"x">>, v, key)) - 1) :
            v \in Versions}
    \cup {Entry(<<"x">>, v, key) \o <<"\n">> : v \in Versions}
    \cup {Entry(<<"x">>, v, k) : v \in Versions, k \in Keys(bun) \ {key}}
    \cup {<<>>, <<"x">>}

\* The files at the start: none, or one left at the path of IdA's entry (the
\* two identities are interchangeable).
InitFiles(bun, dirs) ==
    {<<>>} \cup
    UNION {{WriteFile(<<>>, <<b, k>>, c) : c \in ForeignContents(k, bun)} :
              b \in {x \in Bases : dirs[x] # "absent"},
              k \in {getKey(IdA, s, bun) : s \in Sources}}

Init ==
    /\ isBun \in BOOLEAN
    /\ dir \in [Bases -> {"absent", "rw", "ro"}]
    /\ fs \in InitFiles(isBun, dir)
    /\ installed \in Versions
    /\ session \in Opts
    /\ typiaVersion = Null
    /\ cacheDir = Null
    /\ setAt = <<>>
    /\ setBy = <<>>
    /\ prev = NoCall
    /\ last = NoCall
    /\ tasks = <<>>
    /\ plugin = <<>>
    /\ keyed = <<>>
    /\ nextjs = <<>>

Next ==
    \/ \E id \in Ids, source \in Sources : GetCache(id, source, session)
    \/ \E id \in Ids, source \in Sources,
          data \in {Null} \cup {Some(d) : d \in Datas} :
          SetCache(id, source, data, session)
    \/ ChangeVersion
    \/ Restart
    \/ Chmod
    \/ Rmdir

Spec == Init /\ [][Next]_vars

----------------------------------------------------------------------------
(* Properties of the sequential facade, checked under Spec *)

KeyOf(c) == getKey(c.id, c.source, isBun)

PathOf(c) == getCachePath(KeyOf(c), c.option)

\* The call c ran with caching enabled.
Ran(c, op) == c.op = op /\ c.option.enable

\* prev and last are a completed setCache and the next call, a getCache of
\* the same (identity, source) under the same options.
SetThenGet ==
    /\ Ran(prev, "set") /\ prev.err = ""
    /\ Ran(last, "get") /\ last.err = ""
    /\ last.id = prev.id /\ last.source = prev.source
    /\ last.option = prev.option

\* C1: with caching enabled and the compiler version unchanged, a setCache of
\* non-null data followed by a getCache of the same (identity, source) returns
\* exactly the data passed to setCache.
C1_RoundTripReturnsData ==
    (SetThenGet /\ prev.data # Null) => last.result = prev.data

\* C2: a getCache that finds content at the entry's path returns non-null if
\* and only if the content ends with exactly the hash comment of the version
\* this process has resolved and of the key; an absent entry gives null; and
\* with a writable cache directory no getCache ends in an error.
C2_HitIffMarker ==
    Ran(last, "get") =>
        /\ last.err = "" /\ ~Exists(fs, PathOf(last)) => last.result = Null
        /\ last.err = "" /\ Exists(fs, PathOf(last)) =>
              /\ typiaVersion # Null
              /\ last.result # Null <=>
                    EndsWith(fs[PathOf(last)],
                             HashComment(typiaVersion, KeyOf(last)))
              /\ last.result # Null => last.result = Some(fs[PathOf(last)])
        /\ dir[last.option.base] = "rw" => last.err = ""

\* C2's case: a getCache answered null for content that is on disk but does not
\* end with the hash comment (truncated, other key or other version).
C2_Witness ==
    /\ Ran(last, "get") /\ last.err = ""
    /\ Exists(fs, PathOf(last))
    /\ fs[PathOf(last)] # <<>>
    /\ ~EndsWith(fs[PathOf(last)], HashComment(typiaVersion, KeyOf(last)))
    /\ last.result = Null

\* A getCache that completed on an entry written by setCache while another
\* version than the present one was installed.
GetAfterVersionChange ==
    /\ Ran(last, "get") /\ last.err = ""
    /\ PathOf(last) \in DOMAIN setAt
    /\ setAt[PathOf(last)] # installed

\* C3 as stated: whenever the installed version changed between the setCache
\* and the getCache, the getCache returns null.
C3_VersionChangeAlwaysMisses ==
    GetAfterVersionChange => last.result = Null

\* C3 as amended: the getCache returns null when its process has resolved the
\* version now installed and the entry carries the version that was installed
\* when it was written.
C3_ResolvedVersionMisses ==
    ( /\ GetAfterVersionChange
      /\ typiaVersion = Some(VersionString(installed))
      /\ EndsWith(fs[PathOf(last)],
                  HashComment(Some(VersionString(setAt[PathOf(last)])),
                              KeyOf(last))) )
        => last.result = Null

C3_Witness ==
    /\ GetAfterVersionChange
    /\ typiaVersion = Some(VersionString(installed))
    /\ EndsWith(fs[PathOf(last)],
                HashComment(Some(VersionString(setAt[PathOf(last)])),
                            KeyOf(last)))
    /\ last.result = Null

\* C5: with caching enabled and a writable cache directory, setCache of null
\* on a key whose entry exists removes the entry, and the getCache that follows
\* returns null.
C5_RemoveThenMiss ==
    /\ ( /\ Ran(last, "set") /\ last.data = Null /\ last.existed
         /\ dir[last.option.base] = "rw" )
          => last.err = "" /\ ~Exists(fs, PathOf(last))
    /\ (SetThenGet /\ prev.data = Null /\ prev.existed)
          => last.result = Null /\ ~last.existed

C5_Witness ==
    /\ SetThenGet /\ prev.data = Null /\ prev.existed
    /\ last.result = Null

\* C6: with caching enabled, setCache of null on a key that has no entry ends
\* in an error (ENOENT once the directory is prepared), and the step changes no
\* file at all.
C6_RemoveMissingFails ==
    [][ ( /\ Ran(last', "set") /\ last'.data = Null /\ ~last'.existed )
           => /\ last'.err # ""
              /\ cacheDir' # Null => last'.err = "ENOENT"
              /\ fs' = fs ]_vars

C6_Witness ==
    /\ Ran(last, "set") /\ last.data = Null /\ ~last.existed
    /\ last.err = "ENOENT"
    /\ fs # <<>>

\* C7: with cache.enable = false getCache returns null, whatever is on disk.
C7_DisabledGetIsNull ==
    (last.op = "get" /\ ~last.option.enable) =>
        last.result = Null /\ last.err = ""

\* C7's case: caching is disabled and a valid entry for the key is on disk.
C7_Witness ==
    /\ last.op = "get" /\ ~last.option.enable
    /\ Exists(fs, PathOf(last))
    /\ EndsWith(fs[PathOf(last)],
                HashComment(Some(VersionString(installed)), KeyOf(last)))
    /\ last.result = Null

\* C12: a getCache or setCache with caching enabled, in a process whose
\* prepared flag is unset and whose cache base is not writable, ends in the
\* not-writable error, reads, writes and deletes no entry and leaves the flag
\* unset; so the flag is unset after every such failure and the next call
\* fails the same way.
C12_UnwritableFailsEveryCall ==
    [][ ( /\ last'.op # "none" /\ last'.option.enable
          /\ cacheDir = Null
          /\ ~isWritable(mkdir(dir, last'.option.base), last'.option.base) )
           => /\ last'.err = "not_writable" /\ last'.result = Null
              /\ fs' = fs /\ setAt' = setAt
              /\ typiaVersion' = typiaVersion
              /\ cacheDir' = Null ]_vars

\* C12's case: a setCache and then a getCache both failed on an unwritable
\* base that holds a valid entry for the key.
C12_Witness ==
    /\ prev.op = "set" /\ prev.err = "not_writable"
    /\ last.op = "get" /\ last.err = "not_writable"
    /\ last.id = prev.id
    /\ cacheDir = Null
    /\ Exists(fs, PathOf(last))
    /\ EndsWith(fs[PathOf(last)],
                HashComment(Some(VersionString(installed)), KeyOf(last)))

\* C17: getCache leaves every entry as it is; setCache leaves every entry but
\* the one at join(base, key) as it is, and on success with non-null data that
\* entry is the data followed by the hash comment, whatever it held before; a
\* setCache that fails changes no entry; with caching disabled a call changes
\* neither the files, nor the directory, nor the module state.
C17_FacadeFrame ==
    [][ LET c == last'
            others == (DOMAIN fs \cup DOMAIN fs') \ {PathOf(c)}
        IN  /\ c.op = "get" => fs' = fs
            /\ c.op = "set" =>
                  \A p \in others :
                      /\ p \in DOMAIN fs /\ p \in DOMAIN fs'
                      /\ fs'[p] = fs[p]
            /\ (c.op = "set" /\ c.option.enable /\ c.data # Null
                    /\ c.err = "") =>
                  /\ PathOf(c) \in DOMAIN fs'
                  /\ fs'[PathOf(c)]
                        = c.data[1] \o HashComment(typiaVersion', KeyOf(c))
            /\ (c.op = "set" /\ c.err # "") => fs' = fs
            /\ (c.op # "none" /\ ~c.option.enable) =>
                  /\ fs' = fs /\ dir' = dir
                  /\ cacheDir' = cacheDir /\ typiaVersion' = typiaVersion
      ]_vars

\* C17's case: a setCache replaced the entry that the setCache before it had
\* written with other data, while another entry is on disk.
C17_Witness ==
    /\ Ran(prev, "set") /\ prev.err = "" /\ prev.data = Some(<<"x">>)
    /\ Ran(last, "set") /\ last.err = "" /\ last.data = Some(<<"y">>)
    /\ last.id = prev.id /\ last.existed
    /\ fs[PathOf(last)] = <<"y">> \o HashComment(typiaVersion, KeyOf(last))
    /\ \E p \in DOMAIN fs : p # PathOf(last)

\* C13: the two storage backends behave alike: whenever a setCache of
\* non-null data gets past prepareCacheDir, its write at the entry's path has
\* the same outcome on the Bun backend and on the Node backend from the file
\* system it runs on, a missing base directory included.
C13_BackendsWriteAlike ==
    [][ ( /\ Ran(last', "set") /\ last'.data # Null
          /\ ~PrepareThrows(last'.option) )
           => WriteError(fs, DirAfterPrepare(last'.option), PathOf(last'), TRUE)
                = WriteError(fs, DirAfterPrepare(last'.option), PathOf(last'),
                             FALSE) ]_vars

----------------------------------------------------------------------------
(* getCache and setCache step by step: a call suspends at each await, and  *)
(* the calls in flight interleave.  A write is an open that truncates the  *)
(* file followed by appends of the content in pieces.                      *)

\* A write is split into at most MaxAppends appends.
MaxAppends == 2

Writers == {"w1", "w2"}

Readers == {"r1"}

Tasks == Writers \cup Readers

Idle ==
    [op |-> "none", id |-> <<>>, source |-> "", data |-> Null, pc |-> "idle",
     buf |-> <<>>, appends |-> 0, read |-> <<>>, result |-> Null, err |-> "",
     mkdirs |-> 0, checks |-> 0]

TaskKey(t) == getKey(tasks[t].id, tasks[t].source, isBun)

TaskPath(t) == getCachePath(TaskKey(t), session)

Goto(t, pc) == tasks' = [tasks EXCEPT ![t].pc = pc]

Return(t, result, err) ==
    tasks' = [tasks EXCEPT ![t].pc = "done", ![t].result = result,
                           ![t].err = err]

\* A caller invokes getCache or setCache (cache.ts:24, 68).
T_Call(t, op, id, source, data) ==
    /\ tasks[t].pc = "idle"
    /\ tasks' = [tasks EXCEPT ![t] =
                    [Idle EXCEPT !.op = op, !.id = id, !.source = source,
                                 !.data = data, !.pc = "start"]]
    /\ UNCHANGED <<fs, dir, typiaVersion, cacheDir>>

\* cache.ts:29-32 and 74-77 with prepareCacheDir's test of the flag, 122-126.
T_Begin(t) ==
    /\ tasks[t].pc = "start"
    /\ IF ~CacheEnabled(session) THEN Return(t, Null, "")
       ELSE IF cacheDir # Null THEN Goto(t, "body")
       ELSE Goto(t, "mkdir")
    /\ UNCHANGED <<fs, dir, typiaVersion, cacheDir>>

\* await mkdir(_cacheDir, { recursive: true }), cache.ts:126.
T_Mkdir(t) ==
    /\ tasks[t].pc = "mkdir"
    /\ dir' = mkdir(dir, session.base)
    /\ tasks' = [tasks EXCEPT ![t].pc = "access", ![t].mkdirs = @ + 1]
    /\ UNCHANGED <<fs, typiaVersion, cacheDir>>

\* await isWritable(_cacheDir) and what follows it, cache.ts:128-132.
T_Access(t) ==
    /\ tasks[t].pc = "access"
    /\ IF isWritable(dir, session.base)
       THEN /\ cacheDir' = Some(session.base)
            /\ tasks' = [tasks EXCEPT ![t].pc = "body", ![t].checks = @ + 1]
       ELSE /\ UNCHANGED cacheDir
            /\ tasks' = [tasks EXCEPT ![t].pc = "done", ![t].checks = @ + 1,
                                      ![t].err = "not_writable"]
    /\ UNCHANGED <<fs, dir, typiaVersion>>

\* getCache after prepareCacheDir: the test that the entry exists,
\* cache.ts:34-48.
T_Exists(t) ==
    /\ tasks[t].pc = "body" /\ tasks[t].op = "get"
    /\ IF Exists(fs, TaskPath(t)) THEN Goto(t, "read")
       ELSE Return(t, Null, "")
    /\ UNCHANGED <<fs, dir, typiaVersion, cacheDir>>

\* await file.text() / await readFile(path), cache.ts:43, 49.
T_Read(t) ==
    /\ tasks[t].pc = "read"
    /\ IF Exists(fs, TaskPath(t))
       THEN tasks' = [tasks EXCEPT ![t].pc = "comment",
                                   ![t].read = fs[TaskPath(t)]]
       ELSE Return(t, Null, "ENOENT")
    /\ UNCHANGED <<fs, dir, typiaVersion, cacheDir>>

\* getCache: await getHashComment(key) and the test of the suffix,
\* cache.ts:52-58.
T_GetComment(t) ==
    /\ tasks[t].pc = "comment"
    /\ typiaVersion' = ResolveVersion(typiaVersion, installed)
    /\ Return(t, CacheHit(tasks[t].read,
                          HashComment(typiaVersion', TaskKey(t))), "")
    /\ UNCHANGED <<fs, dir, cacheDir>>

\* setCache after prepareCacheDir: await getHashComment(key) and the choice
\* between rm and write, cache.ts:79-88.
T_SetComment(t) ==
    /\ tasks[t].pc = "body" /\ tasks[t].op = "set"
    /\ typiaVersion' = ResolveVersion(typiaVersion, installed)
    /\ IF tasks[t].data = Null THEN Goto(t, "rm")
       ELSE tasks' = [tasks EXCEPT
                ![t].pc = "open",
                ![t].buf = CacheContent(tasks[t].data[1],
                              HashComment(typiaVersion', TaskKey(t)))]
    /\ UNCHANGED <<fs, dir, cacheDir>>

\* await rm(path), cache.ts:84-85.
T_Rm(t) ==
    /\ tasks[t].pc = "rm"
    /\ LET err == RmError(fs, dir, TaskPath(t))
       IN  /\ fs' = IF err = "" THEN RemoveFile(fs, TaskPath(t)) ELSE fs
           /\ Return(t, Null, err)
    /\ UNCHANGED <<dir, typiaVersion, cacheDir>>

\* Bun.write / writeFile open the file, creating or truncating it,
\* cache.ts:90, 93.
T_Open(t) ==
    /\ tasks[t].pc = "open"
    /\ LET err == WriteError(fs, dir, TaskPath(t), isBun)
       IN  IF err = ""
           THEN /\ fs' = WriteFile(fs, TaskPath(t), <<>>)
                /\ dir' = mkdir(dir, session.base)
                /\ Goto(t, "append")
           ELSE /\ UNCHANGED <<fs, dir>>
                /\ Return(t, Null, err)
    /\ UNCHANGED <<typiaVersion, cacheDir>>

\* The next n tokens of the content reach the file; the last append allowed
\* carries all that is left.  A file unlinked meanwhile is no longer at path.
T_Append(t, n) ==
    /\ tasks[t].pc = "append"
    /\ n \in 1..Len(tasks[t].buf)
    /\ tasks[t].appends + 1 = MaxAppends => n = Len(tasks[t].buf)
    /\ fs' = IF Exists(fs, TaskPath(t))
             THEN WriteFile(fs, TaskPath(t),
                            fs[TaskPath(t)] \o SubSeq(tasks[t].buf, 1, n))
             ELSE fs
    /\ tasks' = [tasks EXCEPT
            ![t].buf = SubSeq(@, n + 1, Len(@)),
            ![t].appends = @ + 1,
            ![t].pc = IF n = Len(tasks[t].buf) THEN "done" ELSE "append"]
    /\ UNCHANGED <<dir, typiaVersion, cacheDir>>

ConcFrame ==
    UNCHANGED <<installed, isBun, session, setAt, setBy, prev, last, plugin, keyed,
                nextjs>>

InitConc ==
    /\ isBun \in BOOLEAN
    /\ dir \in [Bases -> {"absent", "rw"}]
    /\ fs = <<>>
    /\ installed = 0
    /\ session \in {o \in Opts : o.enable}
    /\ typiaVersion = Null
    /\ cacheDir = Null
    /\ setAt = <<>>
    /\ setBy = <<>>
    /\ prev = NoCall
    /\ last = NoCall
    /\ tasks = [t \in Tasks |-> Idle]
    /\ plugin = <<>>
    /\ keyed = <<>>
    /\ nextjs = <<>>

NextConc ==
    \/ \E t \in Readers : T_Call(t, "get", IdA, "s1", Null) /\ ConcFrame
    \/ \E t \in Writers, data \in {Null} \cup {Some(d) : d \in Datas} :
          T_Call(t, "set", IdA, "s1", data) /\ ConcFrame
    \/ \E t \in Tasks : T_Begin(t) /\ ConcFrame
    \/ \E t \in Tasks : T_Mkdir(t) /\ ConcFrame
    \/ \E t \in Tasks : T_Access(t) /\ ConcFrame
    \/ \E t \in Tasks : T_Exists(t) /\ ConcFrame
    \/ \E t \in Tasks : T_Read(t) /\ ConcFrame
    \/ \E t \in Tasks : T_GetComment(t) /\ ConcFrame
    \/ \E t \in Tasks : T_SetComment(t) /\ ConcFrame
    \/ \E t \in Tasks : T_Rm(t) /\ ConcFrame
    \/ \E t \in Tasks : T_Open(t) /\ ConcFrame
    \/ \E t \in Tasks : \E n \in 1..Len(tasks[t].buf) :
          T_Append(t, n) /\ ConcFrame

SpecConc == InitConc /\ [][NextConc]_vars

\* The complete entries the setCache calls made so far write.
CompleteEntries ==
    {CacheContent(tasks[w].data[1], HashComment(typiaVersion, TaskKey(w))) :
        w \in {x \in Writers : tasks[x].op = "set" /\ tasks[x].data # Null}}

\* C4: under every interleaving of two setCache calls and a getCache on one
\* key, a non-null result of getCache is a complete entry written by one of
\* the setCache calls, never a torn one.
C4_NoTornEntryReturned ==
    \A r \in Readers :
        (tasks[r].pc = "done" /\ tasks[r].result # Null)
            => tasks[r].result[1] \in CompleteEntries

RECURSIVE SumOver(_, _)
SumOver(f, S) ==
    IF S = {} THEN 0
    ELSE LET x == CHOOSE y \in S : TRUE IN f[x] + SumOver(f, S \ {x})

\* How often this process has run mkdir on the cache base, and how often the
\* writability test.
Mkdirs == SumOver([t \in Tasks |-> tasks[t].mkdirs], Tasks)

Checks == SumOver([t \in Tasks |-> tasks[t].checks], Tasks)

\* C11: within one process, under every interleaving of getCache and setCache
\* calls with caching enabled, the cache base is created at most once and
\* tested for writability at most once, and a call that has got past
\* prepareCacheDir means both happened exactly once.
C11_PreparedExactlyOnce ==
    /\ Mkdirs <= 1 /\ Checks <= 1
    /\ (\E t \in Tasks : tasks[t].pc \in {"body", "read", "comment", "rm",
                                           "open", "append"})
          => Mkdirs = 1 /\ Checks = 1

\* C16: under every interleaving of a getCache with setCache calls on its
\* key, one of them a setCache of null, a completed getCache has not ended in
\* an error, and its result is null or content that ends with the hash
\* comment.
C16_ConcurrentRemoveGivesNull ==
    \A r \in Readers :
        tasks[r].pc = "done" =>
            /\ tasks[r].err = ""
            /\ tasks[r].result # Null =>
                  EndsWith(tasks[r].result[1],
                           HashComment(typiaVersion, TaskKey(r)))

----------------------------------------------------------------------------
(* The Bun adapter, bun.ts: setup and the load handlers                    *)

\* Load events served in one build session.
MaxLoads == 2

\* JavaScript values: a type tag, the text of a scalar, the elements of an
\* array.
JsUndefined == [t |-> "undefined", s |-> "", elems |-> <<>>]

JsNull == [t |-> "null", s |-> "", elems |-> <<>>]

JsNumber == [t |-> "number", s |-> "5", elems |-> <<>>]

JsString(text) == [t |-> "string", s |-> text, elems |-> <<>>]

JsRegExp(src) == [t |-> "regexp", s |-> src, elems |-> <<>>]

JsArray(elems) == [t |-> "array", s |-> "", elems |-> elems]

\* A transform result { code }.
JsObject(code) == [t |-> "object", s |-> code, elems |-> <<>>]

TsPattern == "\\.ts$"

APattern == "a\\."

\* The include options tried: absent, a RegExp, strings (one not a valid
\* pattern), another scalar, and arrays.
Includes ==
    {JsUndefined, JsNumber, JsRegExp(TsPattern), JsString(TsPattern),
     JsString("("), JsArray(<<>>), JsArray(<<JsRegExp(TsPattern)>>),
     JsArray(<<JsRegExp(TsPattern), JsRegExp(APattern)>>),
     JsArray(<<JsRegExp(APattern), JsRegExp(TsPattern)>>),
     JsArray(<<JsRegExp(TsPattern), JsString(TsPattern)>>),
     JsArray(<<JsString(TsPattern)>>)}

\* new RegExp(text) throws a SyntaxError on text that is no pattern.
IsPattern(text) == text # "("

\* Variant: the array branch without the include.length > 0 test.
Filters_AllowEmpty(include) ==
    IF include.t = "regexp" THEN Some(<<include>>)
    ELSE IF include.t = "string" THEN Some(<<JsRegExp(include.s)>>)
    ELSE IF /\ include.t = "array"
            /\ \A i \in 1..Len(include.elems) : include.elems[i].t = "regexp"
         THEN Some(include.elems)
    ELSE Null

\* bun.ts:119-126: the filters, or Null for undefined.
Filters(include) ==
    IF include.t = "regexp" THEN Some(<<include>>)
    ELSE IF include.t = "string" THEN Some(<<JsRegExp(include.s)>>)
    ELSE IF /\ include.t = "array"
            /\ \A i \in 1..Len(include.elems) : include.elems[i].t = "regexp"
            /\ Len(include.elems) > 0
         THEN Some(include.elems)
    ELSE Null

\* The error setup throws while it computes the filters, "" for none:
\* bun.ts:123 (the RegExp constructor) and bun.ts:128-130.
FilterError(include) ==
    IF include.t = "string" /\ ~IsPattern(include.s) THEN "SyntaxError"
    ELSE IF Filters(include) = Null THEN "include"
    ELSE ""

\* Files a load event may name: directory, name and extension.
ATs == [dir |-> "/p/src", name |-> "a", ext |-> ".ts"]

BTs == [dir |-> "/p/src", name |-> "b", ext |-> ".ts"]

TypiaJs == [dir |-> "/p/node_modules/typia/lib", name |-> "is", ext |-> ".js"]

LoadPaths == {ATs, BTs, TypiaJs}

MjsPattern == ".+\\/node_modules\\/typia\\/lib\\/.*\\.js$"

\* RegExp.test of the patterns above on a path.
Matches(pattern, path) ==
    IF pattern.s = TsPattern THEN path.ext = ".ts"
    ELSE IF pattern.s = APattern THEN path.name = "a"
    ELSE IF pattern.s = MjsPattern
         THEN path.dir = "/p/node_modules/typia/lib" /\ path.ext = ".js"
    ELSE FALSE

\* Variant: the path is served as it is.
MjsPath_Same(path) == path

\* path.replace(/\.js$/, '.mjs'), bun.ts:157
MjsPath(path) == [path EXCEPT !.ext = IF @ = ".js" THEN ".mjs" ELSE @]

\* Bun.file(path).text()
FileText(path) == "text of " \o path.dir \o "/" \o path.name \o path.ext

\* What unpluginRaw.transform may return: null, undefined, a string or an
\* object with a code string.
TransformResults ==
    {JsNull, JsUndefined, JsString("const x = 3"), JsObject("const x = 2"),
     JsObject("")}

\* Variant: no transform == null test.
taggedTransformError_Unchecked(transformDefined) == ""

\* taggedTransform, bun.ts:31-57: the error thrown ("" for none) and the
\* code returned (Null for undefined).
taggedTransformError(transformDefined) ==
    IF ~transformDefined THEN "transform is not defined" ELSE ""

\* Variant: a string result is returned as the code.
taggedTransform_ReturnsString(result) ==
    IF result.t \in {"null", "undefined"} THEN Null
    ELSE Some(result.s)

taggedTransform(result) ==
    IF result.t \in {"null", "undefined"} THEN Null
    ELSE IF result.t = "string" THEN Null
    ELSE IF result.t = "object" THEN Some(result.s)
    ELSE Some(result.s)

\* code ?? source, bun.ts:149
Contents(code, source) == IF code = Null THEN source ELSE code[1]

\* Variant: a load handler for the first filter only.
Handlers_FirstOnly(filters, forceImportTypiaMjs) ==
    <<[kind |-> "transform", filter |-> filters[1]]>>
    \o (IF forceImportTypiaMjs
        THEN <<[kind |-> "mjs", filter |-> JsRegExp(MjsPattern)]>>
        ELSE <<>>)

\* The handlers setup registers, in order: bun.ts:137-161.
Handlers(filters, forceImportTypiaMjs) ==
    [i \in 1..Len(filters) |-> [kind |-> "transform", filter |-> filters[i]]]
    \o (IF forceImportTypiaMjs
        THEN <<[kind |-> "mjs", filter |-> JsRegExp(MjsPattern)]>>
        ELSE <<>>)

\* The handler Bun runs for a path: the first registered whose filter matches.
Matching(handlers, path) ==
    {i \in 1..Len(handlers) : Matches(handlers[i].filter, path)}

FirstMatch(handlers, path) ==
    CHOOSE i \in Matching(handlers, path) :
        \A j \in Matching(handlers, path) : i <= j

NoEvent ==
    [path |-> ATs, kind |-> "none", result |-> JsUndefined, contents |-> "",
     invoked |-> <<>>]

\* The transform consults the cache first (getCache, cache.ts:29-32), so its
\* first call in a process prepares the cache directory.
TransformCacheError == 
    IF CacheEnabled(session) /\ PrepareThrows(session)
    THEN "Cache directory is not writable." ELSE ""

BunFrame ==
    UNCHANGED <<fs, installed, typiaVersion, isBun, session, setAt, setBy, prev, last,
                tasks, keyed, nextjs>>

\* setup up to the test of the filters, bun.ts:113-130.
Setup_Filters ==
    /\ plugin.pc = "unconfigured"
    /\ plugin' = IF FilterError(plugin.include) # ""
                 THEN [plugin EXCEPT !.pc = "failed",
                                     !.error = FilterError(plugin.include)]
                 ELSE [plugin EXCEPT !.pc = "filtersValidated",
                                     !.filters = Filters(plugin.include)[1]]
    /\ UNCHANGED <<dir, cacheDir>>
    /\ BunFrame

\* await unpluginRaw.buildStart(), bun.ts:132-135.
Setup_BuildStart ==
    /\ plugin.pc = "filtersValidated"
    /\ plugin' = [plugin EXCEPT
            !.pc = "started",
            !.buildStarts = IF plugin.hasBuildStart THEN @ + 1 ELSE @]
    /\ UNCHANGED <<dir, cacheDir>>
    /\ BunFrame

\* The registration of the load handlers, bun.ts:137-161.
Setup_Register ==
    /\ plugin.pc = "started"
    /\ plugin' = [plugin EXCEPT
            !.pc = "ready",
            !.handlers = Handlers(plugin.filters, plugin.force)]
    /\ UNCHANGED <<dir, cacheDir>>
    /\ BunFrame

\* A load event on a path that a transform handler serves, bun.ts:138-150.
Load_Transform(path, result) ==
    /\ plugin.pc = "ready" /\ plugin.loads < MaxLoads
    /\ Matching(plugin.handlers, path) # {}
    /\ plugin.handlers[FirstMatch(plugin.handlers, path)].kind = "transform"
    /\ LET source == FileText(path)
           missing == taggedTransformError(plugin.transformDefined)
           err == IF missing # "" THEN missing ELSE TransformCacheError
           event == [path |-> path, kind |-> "transform", result |-> result,
                     contents |-> Contents(taggedTransform(result), source),
                     invoked |-> <<<<source, path>>>>]
       IN  /\ plugin' = IF err # ""
                THEN [plugin EXCEPT
                        !.pc = "failed", !.error = err,
                        !.loads = @ + 1, !.reads = @ + 1,
                        !.event = [NoEvent EXCEPT !.path = path,
                            !.invoked = IF missing # "" THEN <<>>
                                        ELSE <<<<source, path>>>>]]
                ELSE [plugin EXCEPT !.loads = @ + 1, !.reads = @ + 1,
                                    !.event = event]
           /\ IF missing = "" /\ CacheEnabled(session)
              THEN /\ dir' = DirAfterPrepare(session)
                   /\ cacheDir' = CacheDirAfterPrepare(session)
              ELSE UNCHANGED <<dir, cacheDir>>
    /\ BunFrame

\* A load event on a path that the typia handler serves, bun.ts:155-160.
Load_Mjs(path) ==
    /\ plugin.pc = "ready" /\ plugin.loads < MaxLoads
    /\ Matching(plugin.handlers, path) # {}
    /\ plugin.handlers[FirstMatch(plugin.handlers, path)].kind = "mjs"
    /\ plugin' = [plugin EXCEPT
            !.loads = @ + 1,
            !.event = [path |-> path, kind |-> "mjs", result |-> JsUndefined,
                       contents |-> FileText(MjsPath(path)),
                       invoked |-> <<>>]]
    /\ UNCHANGED <<dir, cacheDir>>
    /\ BunFrame

InitBun ==
    /\ isBun = TRUE
    /\ dir \in [Bases -> {"absent", "rw", "ro"}]
    /\ fs = <<>>
    /\ installed = 0
    /\ session \in Opts
    /\ typiaVersion = Null
    /\ cacheDir = Null
    /\ setAt = <<>>
    /\ setBy = <<>>
    /\ prev = NoCall
    /\ last = NoCall
    /\ tasks = <<>>
    /\ keyed = <<>>
    /\ nextjs = <<>>
    /\ plugin \in [include : Includes, transformDefined : BOOLEAN,
                   hasBuildStart : BOOLEAN, force : BOOLEAN,
                   pc : {"unconfigured"}, error : {""}, filters : {<<>>},
                   handlers : {<<>>}, buildStarts : {0}, loads : {0},
                   reads : {0}, event : {NoEvent}]

NextBun ==
    \/ Setup_Filters
    \/ Setup_BuildStart
    \/ Setup_Register
    \/ \E path \in LoadPaths, result \in TransformResults :
          Load_Transform(path, result)
    \/ \E path \in LoadPaths : Load_Mjs(path)

SpecBun == InitBun /\ [][NextBun]_vars

----------------------------------------------------------------------------
(* Properties of the Bun adapter, checked under SpecBun *)

\* setup threw while it computed the filters.
SetupFailed == plugin.error \in {"include", "SyntaxError"}

AllRegExp(list) == \A i \in 1..Len(list) : list[i].t = "regexp"

\* C8: once setup has computed the filters, a RegExp include gave the list of
\* that one pattern, a string the list of the pattern compiled from it (new
\* RegExp throws on a string that is no pattern), a non-empty array of RegExp
\* the array itself in its order, and every other value the include error; the
\* filters of a setup that went on are a non-empty list of patterns.
C8_FilterNormalization ==
    plugin.pc # "unconfigured" =>
        LET inc == plugin.include
            isList == inc.t = "array" /\ Len(inc.elems) > 0
                        /\ AllRegExp(inc.elems)
        IN  /\ inc.t = "regexp" => ~SetupFailed /\ plugin.filters = <<inc>>
            /\ inc.t = "string" /\ IsPattern(inc.s) =>
                  ~SetupFailed /\ plugin.filters = <<JsRegExp(inc.s)>>
            /\ inc.t = "string" /\ ~IsPattern(inc.s) =>
                  plugin.error = "SyntaxError"
            /\ isList => ~SetupFailed /\ plugin.filters = inc.elems
            /\ inc.t \notin {"regexp", "string"} /\ ~isList =>
                  plugin.error = "include" /\ plugin.pc = "failed"
            /\ ~SetupFailed =>
                  Len(plugin.filters) > 0 /\ AllRegExp(plugin.filters)
            /\ SetupFailed => plugin.filters = <<>> /\ plugin.handlers = <<>>

\* C8's case: an array of two patterns went through in its order.
C8_Witness ==
    /\ plugin.pc = "filtersValidated"
    /\ plugin.include = JsArray(<<JsRegExp(APattern), JsRegExp(TsPattern)>>)
    /\ plugin.filters = <<JsRegExp(APattern), JsRegExp(TsPattern)>>

\* C9: a file that matches an include pattern is served by a transform
\* handler; a served load event invoked the transform once, with (source,
\* identity), and its contents are the code of an object result and the
\* source itself for null, undefined and a string.
C9_ServedContents ==
    /\ plugin.pc = "ready" =>
          \A path \in LoadPaths :
              (\E i \in 1..Len(plugin.filters) :
                    Matches(plugin.filters[i], path))
                => /\ Matching(plugin.handlers, path) # {}
                   /\ plugin.handlers[FirstMatch(plugin.handlers, path)].kind
                        = "transform"
    /\ plugin.event.kind = "transform" =>
          LET e == plugin.event
          IN  /\ e.invoked = << <<FileText(e.path), e.path>> >>
              /\ e.result.t = "object" => e.contents = e.result.s
              /\ e.result.t \in {"null", "undefined", "string"} =>
                    e.contents = FileText(e.path)

\* C9's case: the transform returned a string and the source was served.
C9_Witness ==
    /\ plugin.event.kind = "transform"
    /\ plugin.event.result.t = "string"
    /\ plugin.event.contents = FileText(plugin.event.path)
    /\ plugin.loads = MaxLoads

\* The position of setup in its order of steps.
Rank(pc) ==
    IF pc = "unconfigured" THEN 0
    ELSE IF pc = "filtersValidated" THEN 1
    ELSE IF pc = "started" THEN 2
    ELSE IF pc = "ready" THEN 3
    ELSE 4

TransformHandlers(handlers) ==
    SelectSeq(handlers, LAMBDA h : h.kind = "transform")

\* C18: setup goes from unconfigured to validated filters, then through
\* buildStart, then to ready, one step at a time and never back; buildStart
\* has run (once, when the plugin has one) only after the filters were
\* validated and before any handler is registered; the transform handlers
\* registered are one per filter, in the order of the filters; and a setup
\* whose validation failed has run no buildStart and registered no handler.
C18_SetupOrder ==
    [][ /\ Rank(plugin'.pc) >= Rank(plugin.pc)
        /\ plugin'.pc \in {"filtersValidated", "started", "ready"} =>
              Rank(plugin'.pc) <= Rank(plugin.pc) + 1
        /\ plugin'.buildStarts # plugin.buildStarts =>
              /\ plugin.pc = "filtersValidated" /\ plugin.filters # <<>>
              /\ plugin.handlers = <<>> /\ plugin'.handlers = <<>>
              /\ plugin'.buildStarts = 1
        /\ plugin'.handlers # plugin.handlers =>
              /\ plugin.pc = "started" /\ plugin'.pc = "ready"
              /\ plugin.handlers = <<>>
              /\ plugin.hasBuildStart => plugin.buildStarts = 1
              /\ TransformHandlers(plugin'.handlers)
                    = [i \in 1..Len(plugin.filters) |->
                          [kind |-> "transform", filter |-> plugin.filters[i]]]
        /\ plugin'.pc = "ready" => plugin'.handlers # <<>>
        /\ (SetupFailed)' =>
              plugin'.buildStarts = 0 /\ plugin'.handlers = <<>>
      ]_vars

\* C18's case: a setup with two filters and a buildStart hook is ready.
C18_Witness ==
    /\ plugin.pc = "ready"
    /\ plugin.hasBuildStart /\ plugin.buildStarts = 1
    /\ Len(plugin.filters) = 2
    /\ Len(TransformHandlers(plugin.handlers)) = 2

MjsHandlers(handlers) == SelectSeq(handlers, LAMBDA h : h.kind = "mjs")

\* C19: whatever the include filters, the handlers registered hold the typia
\* handler, once and last, if and only if forceImportTypiaMjs is true; a load
\* event it serves is on a typia lib .js path, has the text of the path with
\* its .js replaced by .mjs as contents, has invoked no transform, and has
\* touched neither the cache directory nor a cache file.
C19_MjsHandler ==
    [][ /\ plugin'.handlers # <<>> =>
              /\ MjsHandlers(plugin'.handlers)
                    = (IF plugin'.force
                       THEN <<[kind |-> "mjs", filter |-> JsRegExp(MjsPattern)]>>
                       ELSE <<>>)
              /\ plugin'.force =>
                    plugin'.handlers[Len(plugin'.handlers)].kind = "mjs"
        /\ (plugin'.loads = plugin.loads + 1 /\ plugin'.event.kind = "mjs") =>
              LET e == plugin'.event
              IN  /\ plugin.force
                  /\ Matches(JsRegExp(MjsPattern), e.path)
                  /\ e.contents = FileText([e.path EXCEPT !.ext = ".mjs"])
                  /\ e.invoked = <<>>
                  /\ plugin'.reads = plugin.reads
                  /\ UNCHANGED <<fs, dir, cacheDir, typiaVersion>>
      ]_vars

\* C19's case: the typia handler served lib/is.js with the text of lib/is.mjs.
C19_Witness ==
    /\ plugin.event.kind = "mjs"
    /\ plugin.event.path = TypiaJs
    /\ plugin.event.contents = "text of /p/node_modules/typia/lib/is.mjs"
    /\ Len(plugin.filters) = 2

ConfigErrors ==
    {"include", "SyntaxError", "transform is not defined",
     "Cache directory is not writable."}

\* C10 as stated: every configuration error is raised before the source of
\* any file is read.
C10_ConfigErrorsBeforeAnyFile ==
    plugin.error \in ConfigErrors => plugin.reads = 0

\* C10 as amended: the include error is raised in setup, before buildStart,
\* before any handler is registered and before any load event; the missing
\* transform is raised inside a load handler, after it has read its file, and
\* it fails every load event a transform handler serves.
C10_OnlyIncludeErrorIsEarly ==
    /\ SetupFailed =>
          /\ plugin.reads = 0 /\ plugin.loads = 0
          /\ plugin.buildStarts = 0 /\ plugin.handlers = <<>>
    /\ plugin.error = "transform is not defined" =>
          /\ plugin.reads >= 1 /\ plugin.loads >= 1
          /\ plugin.event.invoked = <<>>
    /\ plugin.reads >= 1 /\ ~plugin.transformDefined =>
          plugin.error = "transform is not defined" /\ plugin.pc = "failed"
    /\ plugin.reads = 0 /\ ~SetupFailed => plugin.error = ""

\* C10's case: the include error was raised.
C10_Witness ==
    /\ plugin.error = "include"
    /\ plugin.pc = "failed"
    /\ plugin.include = JsArray(<<JsRegExp(TsPattern), JsString(TsPattern)>>)

----------------------------------------------------------------------------
(* getKey as a function of two (identity, source) pairs                    *)

\* Path segments as token sequences; "_" is the token getKey joins with.
Segments ==
    {<<"a">>, <<"b">>, <<"c">>, <<"a", "_", "b">>, <<"b", "_", "c">>}

Roots == {<<"src">>, <<"lib">>}

KeyIds == {<<r, p, f>> : r \in Roots, p \in Segments, f \in Segments}

KeySources == {"s1", "s2"}

KeyInputs == [id : KeyIds, source : KeySources]

\* The (parent-directory basename, file basename) pair of an identity.
BasenamePair(id) == <<basename(dirname(id)), basename(id)>>

InitKey ==
    /\ isBun \in BOOLEAN
    /\ keyed \in [left : KeyInputs, right : KeyInputs, keys : {<<>>}]
    /\ fs = <<>>
    /\ dir = [b \in Bases |-> "absent"]
    /\ installed = 0
    /\ session \in {o \in Opts : o.enable}
    /\ typiaVersion = Null
    /\ cacheDir = Null
    /\ setAt = <<>>
    /\ setBy = <<>>
    /\ prev = NoCall
    /\ last = NoCall
    /\ tasks = <<>>
    /\ plugin = <<>>
    /\ nextjs = <<>>

\* getKey(id, source) on both pairs, cache.ts:102-107.
GetKeys ==
    /\ keyed.keys = <<>>
    /\ keyed' = [keyed EXCEPT !.keys =
            <<getKey(keyed.left.id, keyed.left.source, isBun),
              getKey(keyed.right.id, keyed.right.source, isBun)>>]
    /\ UNCHANGED <<fs, dir, installed, typiaVersion, cacheDir, isBun, session,
                   setAt, setBy, prev, last, tasks, plugin, nextjs>>

NextKey == GetKeys

SpecKey == InitKey /\ [][NextKey]_vars

\* C14: two (identity, source) pairs have the same key only if their content
\* hashes are equal and their identities have the same (parent basename, file
\* basename) pair; equal pairs have equal keys.
C14_KeyCollisionOnlyOnSamePair ==
    keyed.keys # <<>> =>
        LET l == keyed.left
            r == keyed.right
        IN  /\ keyed.keys[1] = keyed.keys[2] =>
                  /\ hash(l.source, isBun) = hash(r.source, isBun)
                  /\ BasenamePair(l.id) = BasenamePair(r.id)
            /\ l = r => keyed.keys[1] = keyed.keys[2]

----------------------------------------------------------------------------
(* The facade over several identities and several contents of a file,     *)
(* from an empty cache                                                     *)

StoreIds ==
    {IdA,
     << <<"src">>, <<"a", "_", "b">>, <<"c">> >>,
     << <<"src">>, <<"a">>, <<"b", "_", "c">> >>}

\* An older and a newer content of a file.
StoreSources == {"s1", "s2"}

\* What the claim takes a key to stand for.
KeyTriple(id, source) == <<BasenamePair(id), hash(source, isBun)>>

InitStore ==
    /\ isBun \in BOOLEAN
    /\ dir = [b \in Bases |-> "rw"]
    /\ fs = <<>>
    /\ installed = 0
    /\ session \in {o \in Opts : o.enable}
    /\ typiaVersion = Null
    /\ cacheDir = Null
    /\ setAt = <<>>
    /\ setBy = <<>>
    /\ prev = NoCall
    /\ last = NoCall
    /\ tasks = <<>>
    /\ plugin = <<>>
    /\ keyed = <<>>
    /\ nextjs = <<>>

NextStore ==
    \/ \E id \in StoreIds, source \in StoreSources :
          GetCache(id, source, session)
    \/ \E id \in StoreIds, source \in StoreSources,
          data \in {Null} \cup {Some(d) : d \in Datas} :
          SetCache(id, source, data, session)

SpecStore == InitStore /\ [][NextStore]_vars

\* C15: a non-null result of getCache(identity, source) is an entry that a
\* setCache wrote for an (identity, source) with the same parent basename,
\* file basename and content hash; in particular not one written for another
\* content of the file.
C15_HitWasWrittenForSameTriple ==
    (Ran(last, "get") /\ last.result # Null) =>
        /\ PathOf(last) \in DOMAIN setBy
        /\ KeyTriple(setBy[PathOf(last)].id, setBy[PathOf(last)].source)
              = KeyTriple(last.id, last.source)

----------------------------------------------------------------------------
(* The Next.js wrapper, farm.ts:54-69                                      *)

\* Calls of the webpack hook in one build (server, client, ...).
MaxHooks == 2

\* The unplugin-typia options handed to next().
NextOptions == {"o1", "o2"}

\* webpack(options): the typia webpack plugin made from the options.
TypiaPlugin(options) == "webpack(" \o options \o ")"

\* nextConfig.webpack: absent, a value that is no function, or a function
\* that returns the config it got, pushes a plugin to it first, or returns a
\* config of its own.
UserWebpacks ==
    {"absent", "notFunction", "returnsConfig", "pushesPlugin", "returnsOwn"}

IsFunction(w) == w \in {"returnsConfig", "pushesPlugin", "returnsOwn"}

NextConfigs ==
    [webpack : UserWebpacks, reactStrictMode : {"absent", "true", "false"}]

\* The default of the nextConfig parameter, {}.
EmptyNextConfig == [webpack |-> "absent", reactStrictMode |-> "absent"]

\* The configs Next.js hands to the hook: plugins absent, not an array, or an
\* array; and no config at all.
NoConfig == [defined |-> FALSE, plugins |-> JsUndefined, mode |-> ""]

WebpackConfigs ==
    [defined : {TRUE},
     plugins : {JsUndefined, JsString("p"), JsArray(<<>>), JsArray(<<"u1">>),
                JsArray(<<"u1", "u2">>)},
     mode : {"server", "client"}]
    \cup {NoConfig}

\* Variant: the plugin is pushed to the end of config.plugins.
Unshift_Push(config, options) ==
    IF config.plugins.t = "array"
    THEN [config EXCEPT !.plugins.elems = @ \o <<TypiaPlugin(options)>>]
    ELSE config

\* if (Array.isArray(config?.plugins)) config.plugins.unshift(webpack(options))
Unshift(config, options) ==
    IF config.plugins.t = "array"
    THEN [config EXCEPT !.plugins.elems = <<TypiaPlugin(options)>> \o @]
    ELSE config

\* nextConfig.webpack(config, webpackOptions), for the functions above.
UserWebpack(w, config) ==
    IF w = "returnsConfig" THEN config
    ELSE IF w = "pushesPlugin"
         THEN (IF config.plugins.t = "array"
               THEN [config EXCEPT !.plugins.elems = @ \o <<"mine">>]
               ELSE config)
    ELSE [defined |-> TRUE, plugins |-> JsArray(<<"own">>), mode |-> "own"]

\* The object next() returns: ...nextConfig with webpack replaced by the hook.
NextResult(nextConfig) == [nextConfig EXCEPT !.webpack = "hook"]

\* The hook, farm.ts:57-67: the configs the user's function was called with,
\* and the value returned.
WebpackHook(nextConfig, options, config) ==
    LET modified == Unshift(config, options)
    IN  IF IsFunction(nextConfig.webpack)
        THEN [seen |-> <<modified>>,
              result |-> UserWebpack(nextConfig.webpack, modified)]
        ELSE [seen |-> <<>>, result |-> modified]

NoHook == [config |-> NoConfig, seen |-> <<>>, result |-> NoConfig]

InitNext ==
    /\ nextjs \in [given : BOOLEAN, nextConfig : NextConfigs,
                    options : NextOptions, wrapped : {Null}, hooks : {0},
                    call : {NoHook}]
    /\ ~nextjs.given => nextjs.nextConfig = EmptyNextConfig
    /\ isBun = FALSE
    /\ fs = <<>>
    /\ dir = [b \in Bases |-> "absent"]
    /\ installed = 0
    /\ session \in {o \in Opts : o.enable}
    /\ typiaVersion = Null
    /\ cacheDir = Null
    /\ setAt = <<>>
    /\ setBy = <<>>
    /\ prev = NoCall
    /\ last = NoCall
    /\ tasks = <<>>
    /\ plugin = <<>>
    /\ keyed = <<>>

NextFrame ==
    UNCHANGED <<fs, dir, installed, typiaVersion, cacheDir, isBun, session,
                setAt, setBy, prev, last, tasks, plugin, keyed>>

\* next(nextConfig, options), farm.ts:54-69.
Next_Call ==
    /\ nextjs.wrapped = Null
    /\ nextjs' = [nextjs EXCEPT !.wrapped = Some(NextResult(nextjs.nextConfig))]
    /\ NextFrame

\* Next.js calls the webpack function of the object next() returned.
Next_Hook(config) ==
    /\ nextjs.wrapped # Null /\ nextjs.hooks < MaxHooks
    /\ LET h == WebpackHook(nextjs.nextConfig, nextjs.options, config)
       IN  nextjs' = [nextjs EXCEPT
                !.hooks = @ + 1,
                !.call = [config |-> config, seen |-> h.seen,
                          result |-> h.result]]
    /\ NextFrame

NextNext ==
    \/ Next_Call
    \/ \E config \in WebpackConfigs : Next_Hook(config)

SpecNext == InitNext /\ [][NextNext]_vars

\* The config after the hook's first statement, written out.
WithTypiaFirst(config, options) ==
    IF config.plugins.t = "array"
    THEN [defined |-> config.defined,
          plugins |-> JsArray(<<"webpack(" \o options \o ")">>
                               \o config.plugins.elems),
          mode |-> config.mode]
    ELSE config

\* C20: the object next() returns has every field of nextConfig but webpack
\* as it was; its webpack hook puts the typia plugin first in config.plugins
\* when that is an array and leaves the config alone otherwise; a user
\* function is called once, with that config, and what it returns is
\* returned; without a user function the config itself is returned.
C20_NextWebpackHook ==
    /\ nextjs.wrapped # Null =>
          /\ nextjs.wrapped[1].reactStrictMode
                = nextjs.nextConfig.reactStrictMode
          /\ nextjs.wrapped[1].webpack = "hook"
    /\ nextjs.hooks > 0 =>
          LET c == nextjs.call
              w == nextjs.nextConfig.webpack
              modified == WithTypiaFirst(c.config, nextjs.options)
          IN  /\ w \in {"absent", "notFunction"} =>
                    c.seen = <<>> /\ c.result = modified
              /\ IsFunction(w) => c.seen = <<modified>>
              /\ w = "returnsConfig" => c.result = modified
              /\ w = "pushesPlugin" /\ c.config.plugins.t = "array" =>
                    c.result.plugins.elems
                      = modified.plugins.elems \o <<"mine">>
              /\ w = "returnsOwn" =>
                    c.result.plugins = JsArray(<<"own">>)

\* C20's case: the user's function got the config with the typia plugin
\* before the two plugins it had, and pushed its own after them.
C20_Witness ==
    /\ nextjs.hooks = MaxHooks
    /\ nextjs.nextConfig.webpack = "pushesPlugin"
    /\ nextjs.call.config.plugins = JsArray(<<"u1", "u2">>)
    /\ nextjs.call.result.plugins
          = JsArray(<<"webpack(o1)", "u1", "u2", "mine">>)

====
